---- MODULE Spec2Model ----
(***************************************************************************)
(* A model of storages/backends/azure_storage.py: the AzureStorage         *)
(* adapter over the Azure BlobService SDK.                                  *)
(*                                                                         *)
(* The SDK is the environment.  It is modelled as one container, a         *)
(* function from the names present to their bytes, whose calls either      *)
(* answer, raise AzureMissingResourceHttpError (the name is absent) or     *)
(* raise some other error (AzureHttpError: auth, quota, ...).              *)
(*                                                                         *)
(* Python values: a name is a sequence of string pieces (separators are    *)
(* pieces of their own), bytes are sequences over Bytes, None is           *)
(* <<"None">>, a call's outcome is <<"return", v>> or <<"raise", exc>>.    *)
(***************************************************************************)
EXTENDS Integers, Sequences, FiniteSets, TLC

VARIABLES
    sdk,          \* which attributes the installed BlobService has
    blobs,        \* the container: present name -> bytes
    written,      \* history: name -> payload of its latest successful write
    op,           \* the latest call of a storage method and its outcome
    _connection,  \* AzureStorage._connection (0 is None)
    created,      \* how many BlobService objects were constructed so far
    assigns,      \* how many times self._connection was assigned
    pc,           \* per caller: where it is inside the connection property
    local,        \* per caller: the BlobService it has just constructed
    got,          \* per caller: what the connection property returned last
    calls,        \* per caller: how many property reads it has started
    cfg,          \* the Django settings the adapter reads
    now           \* the wall clock, seconds since the epoch (UTC)

vars == <<sdk, blobs, written, op, _connection, created, assigns,
          pc, local, got, calls, cfg, now>>

(* ------------------------------ bounds ------------------------------ *)

NumNames == 2
MaxLen == 2
NumThreads == 2
MaxCalls == 2
MaxTicks == 2

NamePool == << <<"d", "/", "f">>, <<"d", "\\", "f">>, <<"a">>, <<"img.png">> >>

Min(a, b) == IF a < b THEN a ELSE b

Names == {NamePool[i] : i \in 1..Min(NumNames, Len(NamePool))}

\* one byte value: payloads differ by their length
Bytes == {0}

ByteSeqs == UNION {[1..n -> Bytes] : n \in 0..MaxLen}

\* an uploaded file: its bytes, whether the object has a chunks() method,
\* and the content_type attribute of content.file if it has one
Contents == [data : ByteSeqs, has_chunks : BOOLEAN,
             file_content_type : {<<"None">>, <<"text/plain">>}]

Faults == {"none", "error"}

None == <<"None">>

Return(v) == <<"return", v>>

Raise(e) == <<"raise", e>>

Raised(r) == r[1] = "raise"

\* the three SDK generations the module-level imports accept
SDKs == {
    [version |-> "0.31", get_blob |-> FALSE, put_blob |-> FALSE,
     make_blob_url |-> TRUE, properties_dict |-> FALSE],
    [version |-> "0.20", get_blob |-> TRUE, put_blob |-> TRUE,
     make_blob_url |-> TRUE, properties_dict |-> TRUE],
    [version |-> "legacy", get_blob |-> TRUE, put_blob |-> TRUE,
     make_blob_url |-> FALSE, properties_dict |-> TRUE] }

(* ------------------------- the SDK's calls -------------------------- *)

RECURSIVE Concat(_)
Concat(ss) == IF ss = <<>> THEN <<>> ELSE Head(ss) \o Concat(Tail(ss))

Without(b, name) == [n \in DOMAIN b \ {name} |-> b[n]]

With(b, name, data) == [n \in DOMAIN b \cup {name} |->
                           IF n = name THEN data ELSE b[n]]

\* BlobService.get_blob_properties(container, name)
get_blob_properties(b, s, name, fault) ==
    IF fault = "error" THEN Raise("AzureHttpError")
    ELSE IF name \notin DOMAIN b THEN Raise("AzureMissingResourceHttpError")
    ELSE Return(<<"props", [content_length |-> Len(b[name]),
                            dict |-> s.properties_dict]>>)

\* BlobService.get_blob(container, name): the bytes (SDK 0.20 and older)
get_blob(b, name, fault) ==
    IF fault = "error" THEN Raise("AzureHttpError")
    ELSE IF name \notin DOMAIN b THEN Raise("AzureMissingResourceHttpError")
    ELSE Return(b[name])

\* BlobService.get_blob_to_bytes(container, name): a Blob (SDK 0.31)
get_blob_to_bytes(b, name, fault) ==
    IF fault = "error" THEN Raise("AzureHttpError")
    ELSE IF name \notin DOMAIN b THEN Raise("AzureMissingResourceHttpError")
    ELSE Return([content |-> b[name]])

\* BlobService.delete_blob(container, name)
delete_blob(b, name, fault) ==
    IF fault = "error" THEN [result |-> Raise("AzureHttpError"), blobs |-> b]
    ELSE IF name \notin DOMAIN b
        THEN [result |-> Raise("AzureMissingResourceHttpError"), blobs |-> b]
    ELSE [result |-> Return(None), blobs |-> Without(b, name)]

\* BlobService.put_blob(container, name, data, "BlockBlob", content type)
put_blob(b, name, data, content_type, fault) ==
    IF fault = "error" THEN [result |-> Raise("AzureHttpError"), blobs |-> b]
    ELSE [result |-> Return(None), blobs |-> With(b, name, data)]

\* BlobService.create_blob_from_bytes(container, name, data, settings)
create_blob_from_bytes(b, name, data, content_settings, fault) ==
    IF fault = "error" THEN [result |-> Raise("AzureHttpError"), blobs |-> b]
    ELSE [result |-> Return(None), blobs |-> With(b, name, data)]

RECURSIVE InPoolOrder(_, _)
InPoolOrder(S, i) ==
    IF i > Len(NamePool) THEN <<>>
    ELSE (IF NamePool[i] \in S THEN <<NamePool[i]>> ELSE <<>>)
         \o InPoolOrder(S, i + 1)

\* BlobService.list_blobs(container): the names of the blobs, in the
\* service's order
list_blobs(b, fault) ==
    IF fault = "error" THEN Raise("AzureHttpError")
    ELSE Return(InPoolOrder(DOMAIN b, 1))

(* ---------------------------- clean_name ---------------------------- *)

\* path.split("/"): the runs of pieces between the separators
RECURSIVE split(_, _)
split(path, comp) ==
    IF path = <<>> THEN <<comp>>
    ELSE IF Head(path) = "/" THEN <<comp>> \o split(Tail(path), <<>>)
    ELSE split(Tail(path), Append(comp, Head(path)))

Front(s) == SubSeq(s, 1, Len(s) - 1)

\* the loop of posixpath.normpath over the components
RECURSIVE new_comps(_, _, _)
new_comps(comps, acc, initial_slashes) ==
    IF comps = <<>> THEN acc
    ELSE LET comp == Head(comps) IN
         IF comp = <<>> \/ comp = <<".">>
            THEN new_comps(Tail(comps), acc, initial_slashes)
         ELSE IF \/ comp # <<"..">>
                 \/ (initial_slashes = 0 /\ acc = <<>>)
                 \/ (acc # <<>> /\ acc[Len(acc)] = <<"..">>)
            THEN new_comps(Tail(comps), Append(acc, comp), initial_slashes)
         ELSE IF acc # <<>>
            THEN new_comps(Tail(comps), Front(acc), initial_slashes)
         ELSE new_comps(Tail(comps), acc, initial_slashes)

\* "/".join(comps)
RECURSIVE join(_)
join(comps) ==
    IF comps = <<>> THEN <<>>
    ELSE IF Len(comps) = 1 THEN Head(comps)
    ELSE Head(comps) \o <<"/">> \o join(Tail(comps))

\* os.path.normpath(path), posixpath's
normpath(path) ==
    IF path = <<>> THEN <<".">>
    ELSE LET starts(k) == Len(path) >= k /\ \A i \in 1..k : path[i] = "/"
             initial_slashes == IF ~starts(1) THEN 0
                                ELSE IF starts(2) /\ ~starts(3) THEN 2
                                ELSE 1
             joined == join(new_comps(split(path, <<>>), <<>>,
                                      initial_slashes))
             out == [i \in 1..initial_slashes |-> "/"] \o joined
         IN  IF out = <<>> THEN <<".">> ELSE out

clean_name(name) ==
    LET n == normpath(name) IN
    [i \in 1..Len(n) |-> IF n[i] = "\\" THEN "/" ELSE n[i]]

(* ----------------------- AzureStorage methods ----------------------- *)
(* Each yields [result, blobs, backend, sent]: what the caller gets, the   *)
(* container afterwards, what the SDK call answered, and the names the     *)
(* method handed to the SDK.                                               *)

\* the connection property, run by one caller without interruption
connection(c, n, a) ==
    IF c = 0 THEN [conn |-> n + 1, created |-> n + 1, assigns |-> a + 1]
    ELSE [conn |-> c, created |-> n, assigns |-> a]

\* a variant that swallows every exception of the lookup, not only the
\* missing-resource one
get_blob_properties_catch_all(b, s, name, fault) ==
    LET r == get_blob_properties(b, s, name, fault) IN
    [result |-> IF Raised(r) THEN Return(None) ELSE r,
     blobs |-> b, backend |-> r, sent |-> <<name>>]

__get_blob_properties(b, s, name, fault) ==
    LET r == get_blob_properties(b, s, name, fault) IN
    [result |-> IF r = Raise("AzureMissingResourceHttpError")
                    THEN Return(None) ELSE r,
     blobs |-> b, backend |-> r, sent |-> <<name>>]

_open(b, s, name, fault) ==
    LET r == IF s.get_blob THEN get_blob(b, name, fault)
             ELSE LET blob == get_blob_to_bytes(b, name, fault)
                  IN  IF Raised(blob) THEN blob ELSE Return(blob[2].content)
    IN  [result |-> IF Raised(r) THEN r ELSE Return(<<"ContentFile", r[2]>>),
         blobs |-> b, backend |-> r, sent |-> <<name>>]

exists(b, s, name, fault) ==
    LET p == __get_blob_properties(b, s, name, fault) IN
    [p EXCEPT !.result = IF Raised(@) THEN @ ELSE Return(@[2] # None)]

\* a variant without the try/except around delete_blob
delete_no_except(b, s, name, fault) ==
    LET r == delete_blob(b, name, fault) IN
    [result |-> r.result,
     blobs |-> r.blobs, backend |-> r.result, sent |-> <<name>>]

delete(b, s, name, fault) ==
    LET r == delete_blob(b, name, fault) IN
    [result |-> IF r.result = Raise("AzureMissingResourceHttpError")
                    THEN Return(None) ELSE r.result,
     blobs |-> r.blobs, backend |-> r.result, sent |-> <<name>>]

size(b, s, name, fault) ==
    LET r == get_blob_properties(b, s, name, fault) IN
    [result |-> IF Raised(r) THEN r
                ELSE IF r[2][2].dict THEN Raise("AttributeError")
                ELSE Return(r[2][2].content_length),
     blobs |-> b, backend |-> r, sent |-> <<name>>]

_azure_3_save(b, name, content_type, content_data, fault) ==
    create_blob_from_bytes(b, name, content_data,
                           [content_type |-> content_type], fault)

_azure_2_save(b, name, content_type, content_data, fault) ==
    put_blob(b, name, content_data, content_type, fault)

\* mimetypes.guess_type(name)[0]
guess_type(name) == <<"guess_type", name>>

\* content.chunks(): the file's bytes from its start, one chunk at a time
chunks(content) == [i \in 1..Len(content.data) |-> <<content.data[i]>>]

\* content.read()
read(content) == content.data

\* a variant that uploads the first chunk only
save_first_chunk(b, s, name, content, fault) ==
    LET first == IF chunks(content) = <<>> THEN <<>>
                 ELSE Head(chunks(content))
        r == put_blob(b, name, first, guess_type(name), fault)
    IN  [result |-> IF Raised(r.result) THEN r.result ELSE Return(name),
         blobs |-> r.blobs, backend |-> r.result, sent |-> <<name>>]

_save(b, s, name, content, fault) ==
    LET content_type == IF content.file_content_type # None
                            THEN content.file_content_type
                            ELSE guess_type(name)
        content_data == IF content.has_chunks
                            THEN Concat(chunks(content))
                            ELSE read(content)
        r == IF s.put_blob
                THEN _azure_2_save(b, name, content_type, content_data, fault)
                ELSE _azure_3_save(b, name, content_type, content_data, fault)
    IN  [result |-> IF Raised(r.result) THEN r.result ELSE Return(name),
         blobs |-> r.blobs, backend |-> r.result, sent |-> <<name>>]

modified_time(b, s, name, fault) ==
    LET p == __get_blob_properties(b, s, name, fault) IN
    IF Raised(p.result) THEN p
    ELSE IF p.result[2] = None \/ ~p.result[2][2].dict
        THEN [p EXCEPT !.result = Raise("NotImplementedError")]
    ELSE [p EXCEPT !.result = Return(<<"datetime", "last-modified">>)]

\* a variant that reports a blob whose name has a "/" as a directory
listdir_with_dirs(b, s, path, fault) ==
    LET r == list_blobs(b, fault)
        nested(n) == \E i \in DOMAIN n : n[i] = "/"
    IN  [result |-> IF Raised(r) THEN r
                    ELSE Return(<< SelectSeq(r[2], nested),
                                   SelectSeq(r[2], LAMBDA n : ~nested(n)) >>),
         blobs |-> b, backend |-> r, sent |-> <<>>]

listdir(b, s, path, fault) ==
    LET r == list_blobs(b, fault) IN
    [result |-> IF Raised(r) THEN r ELSE Return(<< <<>>, r[2] >>),
     blobs |-> b, backend |-> r, sent |-> <<>>]

(* ------------------------------- url ------------------------------- *)
(* A URL is a sequence of pieces whose concatenation is the string: the    *)
(* base alone, or the base, "?" and the token.                             *)

\* the Python string of a name
RECURSIVE Str(_)
Str(name) == IF name = <<>> THEN "" ELSE Head(name) \o Str(Tail(name))

azure_protocol(c) ==
    IF c.azure_ssl = "True" THEN "https"
    ELSE IF c.azure_ssl # "None" THEN "http" ELSE "None"

\* BlobService.make_blob_url(container_name, blob_name, protocol): a string
\* the SDK builds from its arguments
make_blob_url(container_name, blob_name, protocol) ==
    "make_blob_url(" \o container_name \o "," \o blob_name \o ","
        \o protocol \o ")"

\* int(datetime.datetime(*(time.gmtime()[:-3])).strftime("%s")) at the
\* instant t: the UTC wall clock, read back as local time by strftime("%s")
timestamp(c, t) == t - c.utcoffset

\* helpers.ectoken3.encrypt_v3(key, params): a token that decrypts, under
\* the key, to the parameter string
encrypt_v3(key, params) == [key |-> key, params |-> params]

\* a variant that asks the SDK for its URL before looking at the CDN base
url_native_first(c, s, name, t) ==
    IF s.make_blob_url
        THEN [result |-> Return(<<make_blob_url(c.azure_container, Str(name),
                                                azure_protocol(c))>>),
              connection |-> TRUE, sent |-> <<name>>]
    ELSE [result |-> Return(<<c.media_url \o c.azure_container \o "/"
                                \o Str(name)>>),
          connection |-> TRUE, sent |-> <<>>]

\* url(name) at the instant t; connection says whether self.connection
\* was read
url(c, s, name, t) ==
    LET token(full_url) ==
            IF c.key # "" /\ c.timeout # 0
                THEN <<full_url, "?",
                       encrypt_v3(c.key, <<"ec_expire=",
                                           timestamp(c, t) + c.timeout>>)>>
            ELSE <<full_url>>
    IN  IF c.cdn_url # ""
            THEN [result |-> Return(token(c.cdn_url \o c.azure_container
                                          \o "/" \o Str(name))),
                  connection |-> FALSE, sent |-> <<>>]
        ELSE IF s.make_blob_url
            THEN [result |-> Return(<<make_blob_url(c.azure_container,
                                                    Str(name),
                                                    azure_protocol(c))>>),
                  connection |-> TRUE, sent |-> <<name>>]
        ELSE [result |-> Return(token(c.media_url \o c.azure_container
                                      \o "/" \o Str(name))),
              connection |-> TRUE, sent |-> <<>>]

(* ------------------ the storage methods as actions ------------------ *)

\* the settings: AZURE_CDN_URL, MEDIA_URL, AZURE_CONTAINER,
\* AZURE_CDN_TOKEN_KEY, AZURE_CDN_TOKEN_TIMEOUT (0 and "" are unset),
\* AZURE_SSL, and the UTC offset in seconds of the process's local time zone
Configs == [cdn_url : {"", "https://cdn.example/"},
            media_url : {"/media/"},
            azure_container : {"assets"},
            key : {"", "k"},
            timeout : {0, 60},
            azure_ssl : {"True", "False", "None"},
            utcoffset : {-3600, 0, 3600}]

DefaultCfg == [cdn_url |-> "", media_url |-> "/media/",
               azure_container |-> "assets", key |-> "", timeout |-> 0,
               azure_ssl |-> "None", utcoffset |-> 0]

Threads == 1..NumThreads

InitCallers ==
    /\ pc = [t \in Threads |-> "idle"]
    /\ local = [t \in Threads |-> 0]
    /\ got = [t \in Threads |-> 0]
    /\ calls = [t \in Threads |-> 0]

Init ==
    /\ sdk \in SDKs
    /\ blobs = <<>>
    /\ written = <<>>
    /\ op = [kind |-> "init", name |-> <<>>, fault |-> "none",
             backend |-> Return(None), sent |-> <<>>, result |-> Return(None)]
    /\ _connection = 0
    /\ created = 0
    /\ assigns = 0
    /\ InitCallers
    /\ cfg = DefaultCfg
    /\ now = 0

\* one call of a storage method by a single caller: the method reads
\* self.connection first, then does its work
Call(kind, name, fault, r) ==
    /\ op' = [kind |-> kind, name |-> name, fault |-> fault,
              backend |-> r.backend, sent |-> r.sent, result |-> r.result]
    /\ blobs' = r.blobs
    /\ LET c == connection(_connection, created, assigns) IN
        /\ _connection' = c.conn
        /\ created' = c.created
        /\ assigns' = c.assigns
    /\ UNCHANGED <<sdk, pc, local, got, calls, cfg, now>>

Open ==
    \E name \in Names, fault \in Faults :
        /\ Call("open", name, fault, _open(blobs, sdk, name, fault))
        /\ UNCHANGED written

Exists ==
    \E name \in Names, fault \in Faults :
        /\ Call("exists", name, fault, exists(blobs, sdk, name, fault))
        /\ UNCHANGED written

Delete ==
    \E name \in Names, fault \in Faults :
        LET r == delete(blobs, sdk, name, fault) IN
        /\ Call("delete", name, fault, r)
        /\ written' = IF Raised(r.result) THEN written
                      ELSE Without(written, name)

Size ==
    \E name \in Names, fault \in Faults :
        /\ Call("size", name, fault, size(blobs, sdk, name, fault))
        /\ UNCHANGED written

Save ==
    \E name \in Names, content \in Contents, fault \in Faults :
        LET r == _save(blobs, sdk, name, content, fault) IN
        /\ Call("save", name, fault, r)
        /\ written' = IF Raised(r.result) THEN written
                      ELSE With(written, name, content.data)

ModifiedTime ==
    \E name \in Names, fault \in Faults :
        /\ Call("modified_time", name, fault,
                modified_time(blobs, sdk, name, fault))
        /\ UNCHANGED written

Listdir ==
    \E path \in Names, fault \in Faults :
        /\ Call("listdir", path, fault, listdir(blobs, sdk, path, fault))
        /\ UNCHANGED written

Next == Open \/ Exists \/ Delete \/ Size \/ Save \/ ModifiedTime \/ Listdir

Spec == Init /\ [][Next]_vars

(* ------------------- url and the clock as actions ------------------- *)

UrlNames == {NamePool[i] : i \in DOMAIN NamePool}

InitUrl ==
    /\ sdk \in SDKs
    /\ blobs = <<>>
    /\ written = <<>>
    /\ op = [kind |-> "init", name |-> <<>>, fault |-> "none",
             backend |-> Return(None), sent |-> <<>>, result |-> Return(None),
             at |-> 0]
    /\ _connection = 0
    /\ created = 0
    /\ assigns = 0
    /\ InitCallers
    /\ cfg \in Configs
    /\ now = 1000000000

Url ==
    \E name \in UrlNames :
        LET r == url(cfg, sdk, name, now)
            c == IF r.connection
                    THEN connection(_connection, created, assigns)
                    ELSE [conn |-> _connection, created |-> created,
                          assigns |-> assigns]
        IN  /\ op' = [kind |-> "url", name |-> name, fault |-> "none",
                      backend |-> Return(None), sent |-> r.sent,
                      result |-> r.result, at |-> now]
            /\ _connection' = c.conn
            /\ created' = c.created
            /\ assigns' = c.assigns
            /\ UNCHANGED <<sdk, blobs, written, pc, local, got, calls, cfg,
                           now>>

Tick ==
    /\ now < 1000000000 + MaxTicks
    /\ now' = now + 1
    /\ UNCHANGED <<sdk, blobs, written, op, _connection, created, assigns,
                   pc, local, got, calls, cfg>>

NextUrl == Url \/ Tick

SpecUrl == InitUrl /\ [][NextUrl]_vars

(* ------------- the connection property, caller by caller ------------ *)

\* line 60: if self._connection is None
Test(t) ==
    /\ pc[t] = "idle"
    /\ calls[t] < MaxCalls
    /\ calls' = [calls EXCEPT ![t] = @ + 1]
    /\ pc' = [pc EXCEPT ![t] = IF _connection = 0 THEN "construct"
                                ELSE "return"]
    /\ UNCHANGED <<sdk, blobs, written, op, _connection, created, assigns,
                   local, got, cfg, now>>

\* lines 61-65: the session, the adapter and the BlobService are built
Construct(t) ==
    /\ pc[t] = "construct"
    /\ created' = created + 1
    /\ local' = [local EXCEPT ![t] = created + 1]
    /\ pc' = [pc EXCEPT ![t] = "assign"]
    /\ UNCHANGED <<sdk, blobs, written, op, _connection, assigns, got,
                   calls, cfg, now>>

\* line 64: self._connection = ...
Assign(t) ==
    /\ pc[t] = "assign"
    /\ _connection' = local[t]
    /\ assigns' = assigns + 1
    /\ pc' = [pc EXCEPT ![t] = "return"]
    /\ UNCHANGED <<sdk, blobs, written, op, created, local, got, calls,
                   cfg, now>>

\* line 66: return self._connection
ReturnConnection(t) ==
    /\ pc[t] = "return"
    /\ got' = [got EXCEPT ![t] = _connection]
    /\ pc' = [pc EXCEPT ![t] = "idle"]
    /\ UNCHANGED <<sdk, blobs, written, op, _connection, created, assigns,
                   local, calls, cfg, now>>

NextConn ==
    \E t \in Threads :
        Test(t) \/ Construct(t) \/ Assign(t) \/ ReturnConnection(t)

SpecConn == Init /\ [][NextConn]_vars

(* --------------------------- properties ---------------------------- *)

Missing == Raise("AzureMissingResourceHttpError")

Answered == op.fault = "none"

(* C1: an open of a name whose latest successful mutation is a write      *)
(* returns exactly the payload of that write (the service answering).     *)
C1_OpenReturnsLastWrite ==
    (op.kind = "open" /\ Answered /\ op.name \in DOMAIN written)
        => op.result = Return(<<"ContentFile", written[op.name]>>)

C1_Witness ==
    /\ op.kind = "open" /\ Answered
    /\ op.name \in DOMAIN written
    /\ Len(written[op.name]) >= 2
    /\ op.result = Return(<<"ContentFile", written[op.name]>>)

(* C2: for a name absent from the container exists returns False and      *)
(* open raises the missing-resource error; exists returns True exactly    *)
(* when the property lookup succeeds; any other error of the lookup       *)
(* reaches the caller of exists as it is.                                 *)
C2_ExistsAndOpenOfMissing ==
    /\ op.kind = "exists" =>
        /\ (Answered => op.result = Return(op.name \in DOMAIN blobs))
        /\ (op.result = Return(TRUE) <=> ~Raised(op.backend))
        /\ (op.backend = Missing => op.result = Return(FALSE))
        /\ (Raised(op.backend) /\ op.backend # Missing
                => op.result = op.backend)
    /\ (op.kind = "open" /\ op.name \notin DOMAIN blobs) =>
        /\ Raised(op.result)
        /\ (Answered => op.result = Missing)

C2_Witness ==
    /\ op.kind = "exists" /\ Answered
    /\ op.name \notin DOMAIN blobs
    /\ blobs # <<>>
    /\ op.result = Return(FALSE)

(* C3: a delete the service answers returns normally whether or not the   *)
(* name is present, leaves the container without the name and every       *)
(* other blob as it was, and a second delete of the same name right       *)
(* after it returns normally too and changes nothing.                     *)
C3_DeleteIdempotent ==
    [][(op'.kind = "delete" /\ op'.fault = "none") =>
        /\ op'.result = Return(None)
        /\ blobs' = Without(blobs, op'.name)
        /\ (op.kind = "delete" /\ op.fault = "none" /\ op.name = op'.name)
              => blobs' = blobs]_vars

C3_Witness ==
    /\ op.kind = "delete" /\ Answered
    /\ op.backend = Missing
    /\ op.result = Return(None)
    /\ blobs # <<>>

(* C4: listdir returns a pair: no directories, and the names in the       *)
(* container, each once.                                                  *)
C4_ListdirFlat ==
    (op.kind = "listdir" /\ Answered) =>
        /\ op.result[1] = "return"
        /\ op.result[2][1] = <<>>
        /\ LET files == op.result[2][2] IN
            /\ {files[i] : i \in DOMAIN files} = DOMAIN blobs
            /\ Len(files) = Cardinality(DOMAIN blobs)

C4_Witness ==
    /\ op.kind = "listdir" /\ Answered
    /\ Cardinality(DOMAIN blobs) >= 2
    /\ Len(op.result[2][2]) = Cardinality(DOMAIN blobs)

(* C7: outside exists and delete, an error raised by the service reaches  *)
(* the caller as it is.                                                    *)
C7_ErrorsSurfaceUnmodified ==
    (op.kind \in {"open", "size", "modified_time", "save", "listdir"}
        /\ Raised(op.backend))
        => op.result = op.backend

(* C8: every name a method hands to the service is the normalised form of *)
(* the caller's name and holds no backslash.                               *)
C8_NamesNormalized ==
    \A i \in DOMAIN op.sent :
        /\ op.sent[i] = clean_name(op.name)
        /\ \A j \in DOMAIN op.sent[i] : op.sent[i][j] # "\\"

(* C5: with a key and a timeout configured the URL carries a token whose  *)
(* expiry is the instant of the call plus the timeout, whatever the base;  *)
(* with either missing it carries none.                                    *)
C5_TokenWhenConfigured ==
    op.kind = "url" =>
        LET u == op.result[2] IN
        IF cfg.key # "" /\ cfg.timeout # 0
            THEN /\ Len(u) = 3
                 /\ u[2] = "?"
                 /\ u[3].key = cfg.key
                 /\ u[3].params = <<"ec_expire=", op.at + cfg.timeout>>
        ELSE Len(u) = 1

UrlBase(name) == cfg.azure_container \o "/" \o Str(name)

Unsigned == cfg.key = "" \/ cfg.timeout = 0

(* C9 as stated: the CDN base first, else the SDK's URL, else the result   *)
(* is the media URL base.                                                  *)
C9_UrlBasePriority_AsStated ==
    op.kind = "url" =>
        LET u == op.result[2] IN
        /\ IF cfg.cdn_url # "" THEN u[1] = cfg.cdn_url \o UrlBase(op.name)
           ELSE IF sdk.make_blob_url
               THEN u = <<make_blob_url(cfg.azure_container, Str(op.name),
                                        azure_protocol(cfg))>>
           ELSE u = <<cfg.media_url \o UrlBase(op.name)>>
        /\ (cfg.cdn_url = "https://cdn.example/" /\ Unsigned
              /\ cfg.azure_container = "assets" /\ op.name = <<"img.png">>)
             => u = <<"https://cdn.example/assets/img.png">>

(* C9, amended: the CDN base first, else the SDK's URL, else the result    *)
(* starts with the media URL base; a CDN or media URL is exactly its base  *)
(* when no signing is configured.                                          *)
C9_UrlBasePriority ==
    op.kind = "url" =>
        LET u == op.result[2] IN
        /\ IF cfg.cdn_url # "" THEN u[1] = cfg.cdn_url \o UrlBase(op.name)
           ELSE IF sdk.make_blob_url
               THEN u = <<make_blob_url(cfg.azure_container, Str(op.name),
                                        azure_protocol(cfg))>>
           ELSE u[1] = cfg.media_url \o UrlBase(op.name)
        /\ (Unsigned => Len(u) = 1)
        /\ (cfg.cdn_url = "https://cdn.example/" /\ Unsigned
              /\ cfg.azure_container = "assets" /\ op.name = <<"img.png">>)
             => u = <<"https://cdn.example/assets/img.png">>

C9_Witness ==
    /\ op.kind = "url"
    /\ cfg.cdn_url = "https://cdn.example/"
    /\ sdk.make_blob_url
    /\ op.name = <<"img.png">>
    /\ op.result = Return(<<"https://cdn.example/assets/img.png">>)

(* C6: one BlobService is ever constructed, self._connection is assigned  *)
(* at most once, and every caller gets the same object.                    *)
C6_SingleConnection ==
    /\ created <= 1
    /\ assigns <= 1
    /\ \A t, u \in Threads : (got[t] # 0 /\ got[u] # 0) => got[t] = got[u]

====
